---- MODULE Spec2Model ----
(***************************************************************************)
(* Model of src/main.py: Processor.run over an SRA run table, against a    *)
(* remote DRS service that answers every GET nondeterministically.         *)
(*                                                                         *)
(* One step of the model is one step of the sequential program: a loop     *)
(* iteration that issues one GET, a function entry, or a function return.  *)
(* Strings the code only compares or copies (ids, accessions, URIs) are    *)
(* TLA+ strings; display names, which determine_modified_name inspects     *)
(* character by character, are sequences of one-character strings.         *)
(***************************************************************************)
EXTENDS Naturals, Integers, Sequences, FiniteSets, TLC

----------------------------------------------------------------------------
(* Bounds of the model *)

\* the input table has at most MaxRows rows
MaxRows == 2
\* max_retries is chosen in 0..MaxRetriesBound
MaxRetriesBound == 2
\* a bundle's contents list has at most MaxChildren entries
MaxChildren == 2
MaxNameLen == 6

----------------------------------------------------------------------------
(* Data *)

BASE_URL == "locate.be-md.ncbi.nlm.nih.gov"

\* Python's None as the result of send_request_with_retry; a response that was
\* received is the one-element sequence holding its JSON body.
None == <<>>
\* The default of the etl parameter.
etl == TRUE

\* The Run column of the possible input rows, in table order.
Accessions == <<"SRR1", "SRR2", "SRR3", "SRR4">>
\* The input tables: the first n rows, n in 0..MaxRows.
Tables == {[i \in 1..n |-> [Run |-> Accessions[i]]] : n \in 0..MaxRows}
\* A table of one more row.
LongTable == [i \in 1..(MaxRows + 1) |-> [Run |-> Accessions[i]]]

\* Object ids the location index can report for an accession.
ObjIds == {"A"}
\* Object ids a bundle's contents entries can carry, and those among them an
\* entry with nested contents (a sub-bundle) can carry.
ChildIds == {"B", "C"}
SubBundleIds == {"C"}
\* The id a blob's metadata can carry instead of the requested one (an alias).
AliasIds == {"B"}
\* The base URI the location index reports.
DrsBases == {"https://x"}

\* Display names the service reports, by object id.
NameOf(id) ==
  CASE id = "A" -> <<"a">>
    [] id = "B" -> <<"b", ".", "l", "i", "t", "e">>
    [] id = "C" -> <<"c", ".", "t", "x", "t">>
    [] OTHER -> <<>>

\* What one GET can end in: a response with an HTTP status, or a
\* requests.exceptions.RequestException.
Statuses == {200, 404, 502, 503, 504}
Outcomes == {[kind |-> "response", status_code |-> s] : s \in Statuses}
              \cup {[kind |-> "exception", status_code |-> 0]}

\* Sequences over S of length at most n.
SeqUpTo(S, n) == UNION {[1..m -> S] : m \in 0..n}

\* One entry of a "contents" list; nested is TRUE when the entry has its own
\* "contents" key.
ContentEntries ==
  {[id |-> i, name |-> NameOf(i), nested |-> FALSE] : i \in ChildIds}
    \cup {[id |-> i, name |-> NameOf(i), nested |-> TRUE] : i \in SubBundleIds}

\* Well-formed JSON bodies of the expand endpoint for a request of object d.
\* has_contents is TRUE when the "contents" key is present.
BlobBodies(d) == {[id |-> i, name |-> NameOf(i), has_contents |-> FALSE,
                   contents |-> <<>>] : i \in {d} \cup AliasIds}
BundleBodies(d) == {[id |-> d, name |-> NameOf(d), has_contents |-> TRUE,
                     contents |-> c] : c \in SeqUpTo(ContentEntries, MaxChildren)}
ExpandBodies(d) == BlobBodies(d) \cup BundleBodies(d)

\* Well-formed JSON bodies of the location index for accession sra.
IdxBodies(sra) == {[drs_base |-> b, drs |-> i] : b \in DrsBases, i \in ObjIds}

\* The three endpoints the program sends GETs to.
IdxUrl(sra, e) == [endpoint |-> "idx", id |-> sra, etl |-> e]
ExpandUrl(drs_id) == [endpoint |-> "expand", id |-> drs_id, etl |-> FALSE]
ProbeUrl(blob_id) == [endpoint |-> "probe", id |-> blob_id, etl |-> FALSE]

\* The bodies the service can send with a 200 to a GET of u.
Bodies(u) ==
  CASE u.endpoint = "idx" -> IdxBodies(u.id)
    [] u.endpoint = "expand" -> ExpandBodies(u.id)
    [] OTHER -> {"ok"}

\* Every id a request can be about.
AllIds == ObjIds \cup ChildIds \cup AliasIds \cup {""}

\* A dictionary d with d[key] = value set.
Put(d, key, value) ==
  [x \in DOMAIN d \cup {key} |-> IF x = key THEN value ELSE d[x]]
EmptyDict == [x \in {} |-> FALSE]

----------------------------------------------------------------------------
(* State *)

VARIABLES
  df,                  \* the input table handed to run
  max_retries,         \* Processor.max_retries
  flatten_structure,   \* Processor.flatten_structure
  blob_status_cache,   \* Processor.blob_status_cache
  drs_contents_cache,  \* Processor.drs_contents_cache
  all_data,            \* run: the audit rows
  hot_data,            \* run: the online rows
  row,                 \* run: index of the row the for loop is at
  online_blobs,        \* run: the local online_blobs (unbound until assigned)
  pc,                  \* the statement the program is at
  caller,              \* which function called send_request_with_retry
  site,                \* which function called is_blob_online
  url,                 \* the url of the GET loop in progress
  attempt,             \* the loop variable of the GET loop in progress
  response,            \* what send_request_with_retry returned
  drs_id,              \* run: drs_id
  drs_uri,             \* run: drs_uri
  info,                \* what get_drs_info returned
  k,                   \* position in the contents list being walked
  num_offline,         \* get_drs_info: the sum being accumulated
  blobs,               \* process_online_blobs: its local online_blobs
  blob_id,             \* the argument of is_blob_online
  verdict,             \* what is_blob_online returned
  original,            \* process_online_blobs: original_name
  modified,            \* process_online_blobs: modified_name
  gets,                \* history: GETs issued by the GET loop in progress
  ok_at,               \* history: which of them was first answered 200 (0: none)
  term_at,             \* history: which was first answered by a terminal status
  fetches,             \* history: expand fetches started, by object id
  info_calls,          \* history: get_drs_info calls returned, by object id
  returned,            \* history: the first verdict is_blob_online returned, by id
  hot_src,             \* history: for each online row, the input row it is for
  transport            \* history: send_request_with_retry run on the answers
                       \* the GET loop in progress receives

config == <<df, max_retries, flatten_structure>>
caches == <<blob_status_cache, drs_contents_cache>>
tables == <<all_data, hot_data, hot_src>>
loop == <<url, attempt, gets, ok_at, term_at, transport>>
names == <<original, modified>>
vars == <<df, max_retries, flatten_structure, blob_status_cache,
          drs_contents_cache, all_data, hot_data, row, online_blobs, pc,
          caller, site, url, attempt, response, drs_id, drs_uri, info, k,
          num_offline, blobs, blob_id, verdict, original, modified,
          gets, ok_at, term_at, fetches, info_calls, returned, hot_src,
          transport>>

\* Values of locals that are not in scope.
NoUrl == [endpoint |-> "", id |-> "", etl |-> FALSE]
NoInfo == [is_bundle |-> FALSE, is_online |-> FALSE, num_offline |-> 0,
           name |-> <<>>, num_objects |-> 0]
UnboundLocal == [bound |-> FALSE, value |-> <<>>]
Bound(v) == [bound |-> TRUE, value |-> v]

\* No GET loop is in progress.
NoTransport == [state |-> "idle", gets |-> 0]

\* Processor.__init__ and the entry of run, for a table among dfs, a retry
\* budget among retries and a flatten flag among flattens.
InitWith(dfs, retries, flattens) ==
  /\ df \in dfs
  /\ max_retries \in retries
  /\ flatten_structure \in flattens
  /\ blob_status_cache = EmptyDict
  /\ drs_contents_cache = EmptyDict
  /\ all_data = <<>>
  /\ hot_data = <<>>
  /\ row = 1
  /\ online_blobs = UnboundLocal
  /\ pc = "row"
  /\ caller = ""
  /\ site = ""
  /\ url = NoUrl
  /\ attempt = 0
  /\ response = None
  /\ drs_id = ""
  /\ drs_uri = ""
  /\ info = NoInfo
  /\ k = 0
  /\ num_offline = 0
  /\ blobs = <<>>
  /\ blob_id = ""
  /\ verdict = FALSE
  /\ original = <<>>
  /\ modified = <<>>
  /\ gets = 0
  /\ ok_at = 0
  /\ term_at = 0
  /\ fetches = [i \in AllIds |-> 0]
  /\ info_calls = [i \in AllIds |-> 0]
  /\ returned = EmptyDict
  /\ hot_src = <<>>
  /\ transport = NoTransport

Init == InitWith(Tables, 0..MaxRetriesBound, BOOLEAN)

\* A run over the longer table, with one attempt a request and no flattening.
InitLong == InitWith({LongTable}, {1}, {FALSE})

----------------------------------------------------------------------------
(* The GET loops: for attempt in range(self.max_retries) *)

\* The statuses the service documentation calls transient, and the answers the
\* specification sorts a GET's outcome into (used by the history variables).
IsOk(o) == o.kind = "response" /\ o.status_code = 200
IsRetryable(o) == o.kind = "exception" \/ o.status_code \in {502, 503, 504}
IsTerminal(o) == ~IsOk(o) /\ ~IsRetryable(o)

\* Mutant: the status is not looked at, any response is returned.
SendDispositionReturnAny(o) ==
  IF o.kind = "exception" THEN "retry" ELSE "return"

\* Mutant: every status other than 200 is retried.
SendDispositionRetryAll(o) ==
  IF o.kind = "exception" THEN "retry"
  ELSE IF o.status_code = 200 THEN "return"
  ELSE "retry"

\* send_request_with_retry: what the loop body does with the outcome of its GET.
SendDisposition(o) ==
  IF o.kind = "exception" THEN "retry"
  ELSE IF o.status_code = 200 THEN "return"
  ELSE IF o.status_code \in {502, 503, 504} THEN "retry"
  ELSE "break"

\* send_request_with_retry called: before the first iteration.
TransportEnter ==
  [state |-> IF 0 < max_retries THEN "loop" ELSE "none", gets |-> 0]

\* send_request_with_retry: one iteration, on the answer o; "response" is the
\* return of the response, "none" the return of None after a break or after the
\* last iteration.
TransportStep(t, o) ==
  IF t.state # "loop" THEN t
  ELSE [state |-> IF SendDisposition(o) = "return" THEN "response"
                  ELSE IF SendDisposition(o) = "break" THEN "none"
                  ELSE IF t.gets + 1 < max_retries THEN "loop"
                  ELSE "none",
        gets |-> t.gets + 1]

\* Entering a for loop over range(max_retries): the body runs if 0 < max_retries.
\* The loop of url u starts with no GET issued.
EnterLoop(u, body, after) ==
  /\ url' = u
  /\ attempt' = 0
  /\ gets' = 0
  /\ ok_at' = 0
  /\ term_at' = 0
  /\ transport' = TransportEnter
  /\ pc' = IF 0 < max_retries THEN body ELSE after

\* Mutant: the loop runs one time too many.
NextAttemptOneMore(body, after) ==
  /\ attempt' = attempt + 1
  /\ pc' = IF attempt + 1 <= max_retries THEN body ELSE after

\* The loop is over and its function has returned: its locals are gone.
LeaveLoop ==
  /\ url' = NoUrl
  /\ attempt' = 0
  /\ gets' = 0
  /\ ok_at' = 0
  /\ term_at' = 0
  /\ transport' = NoTransport

\* The end of one iteration that neither returned nor broke out.
NextAttempt(body, after) ==
  /\ attempt' = attempt + 1
  /\ pc' = IF attempt + 1 < max_retries THEN body ELSE after

\* One GET was issued and answered by o.
Issue(o) ==
  /\ gets' = gets + 1
  /\ transport' = TransportStep(transport, o)
  /\ ok_at' = IF ok_at = 0 /\ IsOk(o) THEN gets + 1 ELSE ok_at
  /\ term_at' = IF term_at = 0 /\ IsTerminal(o) THEN gets + 1 ELSE term_at

\* send_request_with_retry: one iteration of the loop.
SendAttempt ==
  /\ pc = "send"
  /\ \E o \in Outcomes :
       /\ Issue(o)
       /\ LET d == SendDisposition(o) IN
            CASE d = "return" ->
                   /\ \E body \in Bodies(url) : response' = <<body>>
                   /\ pc' = "sent"
                   /\ UNCHANGED attempt
              [] d = "retry" ->
                   /\ NextAttempt("send", "send_end")
                   /\ UNCHANGED response
              [] OTHER ->
                   /\ pc' = "send_end"
                   /\ UNCHANGED <<attempt, response>>
  /\ UNCHANGED <<config, names, caches, tables, row, online_blobs, caller, site,
                 url, drs_id, drs_uri, info, k, num_offline, blobs, blob_id,
                 verdict, fetches, info_calls, returned>>

\* send_request_with_retry: after the loop (exhausted or broken out of).
SendFail ==
  /\ pc = "send_end"
  /\ response' = None
  /\ pc' = "sent"
  /\ UNCHANGED <<config, names, caches, tables, row, online_blobs, caller, site,
                 loop, drs_id, drs_uri, info, k, num_offline, blobs, blob_id,
                 verdict, fetches, info_calls, returned>>

----------------------------------------------------------------------------
(* run, get_drs_id_from_sra *)

\* run: the for loop takes the next row and calls get_drs_id_from_sra, which
\* builds the url and calls send_request_with_retry.
RunNextRow ==
  /\ pc = "row"
  /\ row <= Len(df)
  /\ caller' = "locate"
  /\ EnterLoop(IdxUrl(df[row].Run, etl), "send", "send_end")
  /\ UNCHANGED <<config, names, caches, tables, row, online_blobs, site,
                 response, drs_id, drs_uri, info, k, num_offline, blobs,
                 blob_id, verdict, fetches, info_calls, returned>>

\* get_drs_id_from_sra: the pair it returns for the response of the lookup.
DrsIdFromResponse(r) ==
  IF r # None
  THEN [drs_id |-> r[1].drs, drs_uri |-> r[1].drs_base \o "/" \o r[1].drs]
  ELSE [drs_id |-> "", drs_uri |-> ""]

\* get_drs_id_from_sra returns to run.
GetDrsIdReturn ==
  /\ pc = "sent"
  /\ caller = "locate"
  /\ drs_id' = DrsIdFromResponse(response).drs_id
  /\ drs_uri' = DrsIdFromResponse(response).drs_uri
  /\ pc' = "info"
  /\ LeaveLoop
  /\ UNCHANGED <<config, names, caches, tables, row, online_blobs, caller, site,
                 response, info, k, num_offline, blobs, blob_id, verdict,
                 fetches, info_calls, returned>>

----------------------------------------------------------------------------
(* get_drs_info *)

\* The tuple get_drs_info returns when the fetch failed.
Sentinel == [is_bundle |-> FALSE, is_online |-> FALSE, num_offline |-> 0,
             name |-> <<>>, num_objects |-> 0]

\* Mutant: the Object Cache is never consulted.
InContentsCacheNever(id) == FALSE

\* get_drs_info: drs_id in self.drs_contents_cache
InContentsCache(id) == id \in DOMAIN drs_contents_cache

\* get_drs_info: the cache lookup, and the fetch on a miss.
GetDrsInfoEnter ==
  /\ pc = "info"
  /\ IF InContentsCache(drs_id)
     THEN /\ pc' = "agg"
          /\ k' = 1
          /\ num_offline' = 0
          /\ UNCHANGED <<caller, fetches, loop>>
     ELSE /\ caller' = "expand"
          /\ EnterLoop(ExpandUrl(drs_id), "send", "send_end")
          /\ fetches' = [fetches EXCEPT ![drs_id] = @ + 1]
          /\ UNCHANGED <<k, num_offline>>
  /\ response' = None
  /\ UNCHANGED <<config, names, caches, tables, row, online_blobs, site, drs_id,
                 drs_uri, info, blobs, blob_id, verdict, info_calls, returned>>

\* get_drs_info: the fetch returned; cache the JSON or return the sentinel.
GetDrsInfoFetched ==
  /\ pc = "sent"
  /\ caller = "expand"
  /\ IF response # None
     THEN /\ drs_contents_cache' = Put(drs_contents_cache, drs_id, response[1])
          /\ pc' = "agg"
          /\ k' = 1
          /\ num_offline' = 0
          /\ UNCHANGED info
     ELSE /\ info' = Sentinel
          /\ pc' = "info_ret"
          /\ UNCHANGED <<drs_contents_cache, k, num_offline>>
  /\ LeaveLoop
  /\ UNCHANGED <<config, names, blob_status_cache, tables, row, online_blobs,
                 caller, site, response, drs_id, drs_uri, blobs, blob_id,
                 verdict, fetches, info_calls, returned>>

\* Mutant: a standalone blob counts as no object.
NumObjectsBlobZero(response_json) ==
  IF response_json.has_contents THEN Len(response_json.contents) ELSE 0

\* Mutant: every object counts as one, bundle or not.
NumObjectsAlwaysOne(response_json) == 1

\* get_drs_info: num_objects.
NumObjects(response_json) ==
  IF response_json.has_contents THEN Len(response_json.contents) ELSE 1

\* get_drs_info: is_online.
IsOnline(offline, objects) == offline < objects

\* get_drs_info: the ids whose status the sum asks for, in order.
ProbedIds(id, response_json) ==
  IF response_json.has_contents
  THEN [i \in 1..Len(response_json.contents) |-> response_json.contents[i].id]
  ELSE <<id>>

\* get_drs_info: the next term of the sum calls is_blob_online.
GetDrsInfoProbeNext ==
  /\ pc = "agg"
  /\ k <= Len(ProbedIds(drs_id, drs_contents_cache[drs_id]))
  /\ blob_id' = ProbedIds(drs_id, drs_contents_cache[drs_id])[k]
  /\ site' = "agg"
  /\ pc' = "blob"
  /\ UNCHANGED <<config, names, caches, tables, row, online_blobs, caller, loop,
                 response, drs_id, drs_uri, info, k, num_offline, blobs,
                 verdict, fetches, info_calls, returned>>

\* Mutant: the sum counts the online entries.
OfflineTermInverted(v) == IF v THEN 1 ELSE 0

\* get_drs_info: one term of the sum, not self.is_blob_online(...) as an int.
OfflineTerm(v) == IF v THEN 0 ELSE 1

\* get_drs_info: is_blob_online returned; add its term to the sum.
GetDrsInfoProbed ==
  /\ pc = "probed"
  /\ site = "agg"
  /\ num_offline' = num_offline + OfflineTerm(verdict)
  /\ k' = k + 1
  /\ returned' = IF blob_id \in DOMAIN returned THEN returned
                 ELSE Put(returned, blob_id, verdict)
  /\ pc' = "agg"
  /\ LeaveLoop
  /\ blob_id' = ""
  /\ verdict' = FALSE
  /\ UNCHANGED <<config, names, caches, tables, row, online_blobs, caller, site,
                 response, drs_id, drs_uri, info, blobs, fetches, info_calls>>

\* get_drs_info: the tuple it returns once the sum is complete.
DrsInfo(response_json, offline) ==
  [is_bundle |-> response_json.has_contents,
   is_online |-> IsOnline(offline, NumObjects(response_json)),
   num_offline |-> offline,
   name |-> response_json.name,
   num_objects |-> NumObjects(response_json)]

\* get_drs_info returns to run.
GetDrsInfoReturn ==
  /\ pc = "agg"
  /\ k > Len(ProbedIds(drs_id, drs_contents_cache[drs_id]))
  /\ info' = DrsInfo(drs_contents_cache[drs_id], num_offline)
  /\ pc' = "info_ret"
  /\ UNCHANGED <<config, names, caches, tables, row, online_blobs, caller, site,
                 loop, response, drs_id, drs_uri, k, num_offline, blobs,
                 blob_id, verdict, fetches, info_calls, returned>>

----------------------------------------------------------------------------
(* is_blob_online *)

\* Mutant: the Blob Status Cache is never consulted.
InStatusCacheNever(id) == FALSE

\* is_blob_online: blob_id in self.blob_status_cache
InStatusCache(id) == id \in DOMAIN blob_status_cache

\* is_blob_online: the cache lookup, and the probe loop on a miss.
IsBlobOnlineEnter ==
  /\ pc = "blob"
  /\ IF InStatusCache(blob_id)
     THEN /\ verdict' = blob_status_cache[blob_id]
          /\ pc' = "probed"
          /\ UNCHANGED loop
     ELSE /\ EnterLoop(ProbeUrl(blob_id), "probe", "probe_end")
          /\ UNCHANGED verdict
  /\ UNCHANGED <<config, names, caches, tables, row, online_blobs, caller, site,
                 response, drs_id, drs_uri, info, k, num_offline, blobs,
                 blob_id, fetches, info_calls, returned>>

\* Mutant: 504 is not among the statuses the probe retries.
ProbeDispositionNo504(o) ==
  IF o.kind = "exception" THEN "retry"
  ELSE IF o.status_code = 200 THEN "online"
  ELSE IF o.status_code \in {502, 503} THEN "retry"
  ELSE "offline"

\* is_blob_online: what the loop body does with the outcome of its GET.
ProbeDisposition(o) ==
  IF o.kind = "exception" THEN "retry"
  ELSE IF o.status_code = 200 THEN "online"
  ELSE IF o.status_code \in {502, 503, 504} THEN "retry"
  ELSE "offline"

\* is_blob_online: one iteration of the probe loop.
ProbeAttempt ==
  /\ pc = "probe"
  /\ \E o \in Outcomes :
       /\ Issue(o)
       /\ LET d == ProbeDisposition(o) IN
            CASE d = "online" ->
                   /\ blob_status_cache' = Put(blob_status_cache, blob_id, TRUE)
                   /\ verdict' = TRUE
                   /\ pc' = "probed"
                   /\ UNCHANGED attempt
              [] d = "retry" ->
                   /\ NextAttempt("probe", "probe_end")
                   /\ UNCHANGED <<blob_status_cache, verdict>>
              [] OTHER ->
                   /\ blob_status_cache' = Put(blob_status_cache, blob_id, FALSE)
                   /\ verdict' = FALSE
                   /\ pc' = "probed"
                   /\ UNCHANGED attempt
  /\ UNCHANGED <<config, names, drs_contents_cache, tables, row, online_blobs,
                 caller, site, url, response, drs_id, drs_uri, info, k,
                 num_offline, blobs, blob_id, fetches, info_calls, returned>>

\* Mutant: an exhausted probe leaves the cache as it is.
CacheExhaustedNot(cache, id) == cache

\* is_blob_online: the cache after all retries failed.
CacheExhausted(cache, id) == Put(cache, id, FALSE)

\* is_blob_online: all retries failed; the blob is cached as offline.
ProbeFail ==
  /\ pc = "probe_end"
  /\ blob_status_cache' = CacheExhausted(blob_status_cache, blob_id)
  /\ verdict' = FALSE
  /\ pc' = "probed"
  /\ UNCHANGED <<config, names, drs_contents_cache, tables, row, online_blobs,
                 caller, site, loop, response, drs_id, drs_uri, info, k,
                 num_offline, blobs, blob_id, fetches, info_calls, returned>>

----------------------------------------------------------------------------
(* determine_modified_name, process_online_blobs *)

Chars_lite == <<".", "l", "i", "t", "e">>
Chars_sralite == <<".", "s", "r", "a", "l", "i", "t", "e">>
Chars_sra == <<".", "s", "r", "a">>
Chars_DRS_Import == <<"D", "R", "S", "_", "I", "m", "p", "o", "r", "t">>

\* str.endswith
EndsWith(str, suffix) ==
  /\ Len(str) >= Len(suffix)
  /\ SubSeq(str, Len(str) - Len(suffix) + 1, Len(str)) = suffix

\* c in str
Contains(str, c) == \E i \in 1..Len(str) : str[i] = c

\* str[:-n]
DropLast(str, n) ==
  IF n >= Len(str) THEN <<>> ELSE SubSeq(str, 1, Len(str) - n)

\* Mutant: the suffix is cut one character short, the dot stays.
determine_modified_nameKeepDot(original_name) ==
  IF EndsWith(original_name, Chars_lite)
  THEN DropLast(original_name, 4) \o Chars_sralite
  ELSE IF ~Contains(original_name, ".")
  THEN original_name \o Chars_sra
  ELSE original_name

determine_modified_name(original_name) ==
  IF EndsWith(original_name, Chars_lite)
  THEN DropLast(original_name, 5) \o Chars_sralite
  ELSE IF ~Contains(original_name, ".")
  THEN original_name \o Chars_sra
  ELSE original_name

\* Mutant: the flatten test of the bundle branch is the wrong way round.
BundleBlobRecordSwapped(content, name) ==
  [drs_id |-> content.id,
   drs_uri |-> "drs://" \o BASE_URL \o "/" \o content.id,
   name |-> IF flatten_structure
            THEN name \o <<"/">> \o determine_modified_name(content.name)
            ELSE Chars_DRS_Import \o <<"/">>
                   \o determine_modified_name(content.name)]

\* process_online_blobs: the record of an online member of a bundle named name.
BundleBlobRecord(content, name) ==
  [drs_id |-> content.id,
   drs_uri |-> "drs://" \o BASE_URL \o "/" \o content.id,
   name |-> IF ~flatten_structure
            THEN name \o <<"/">> \o determine_modified_name(content.name)
            ELSE Chars_DRS_Import \o <<"/">>
                   \o determine_modified_name(content.name)]

\* process_online_blobs: the record of an online standalone blob.
StandaloneBlobRecord(response_json) ==
  [drs_id |-> response_json.id,
   drs_uri |-> "drs://" \o BASE_URL \o "/" \o response_json.id,
   name |-> IF flatten_structure
            THEN Chars_DRS_Import \o <<"/">>
                   \o determine_modified_name(response_json.name)
            ELSE determine_modified_name(response_json.name)]

\* process_online_blobs: the entries its loop walks (for a standalone blob, the
\* object itself under the id its JSON carries).
WalkedEntries(response_json) ==
  IF response_json.has_contents
  THEN response_json.contents
  ELSE <<[id |-> response_json.id, name |-> response_json.name,
          nested |-> FALSE]>>

\* Mutant: sub-bundles are walked like blobs.
IsSubBundleNever(content) == FALSE

\* process_online_blobs: "contents" in content
IsSubBundle(content) == content.nested

\* process_online_blobs has nothing left to do.
WalkDone ==
  \/ drs_id \notin DOMAIN drs_contents_cache
  \/ k > Len(WalkedEntries(drs_contents_cache[drs_id]))

\* process_online_blobs: the next entry; a sub-bundle is skipped, for a blob
\* is_blob_online is called.
ProcessOnlineBlobsNext ==
  /\ pc = "extract"
  /\ ~WalkDone
  /\ LET content == WalkedEntries(drs_contents_cache[drs_id])[k] IN
       IF IsSubBundle(content)
       THEN /\ k' = k + 1
            /\ UNCHANGED <<pc, site, blob_id>>
       ELSE /\ blob_id' = content.id
            /\ site' = "extract"
            /\ pc' = "blob"
            /\ UNCHANGED k
  /\ UNCHANGED <<config, names, caches, tables, row, online_blobs, caller, loop,
                 response, drs_id, drs_uri, info, num_offline, blobs, verdict,
                 fetches, info_calls, returned>>

\* Mutant: the record is put in front of the list.
EmitFront(v, list, rec) == IF v THEN <<rec>> \o list ELSE list

\* Mutant: the record is appended whatever the verdict.
EmitAlways(v, list, rec) == Append(list, rec)

\* process_online_blobs: "if self.is_blob_online(blob_id): ...
\* online_blobs.append({...})"
Emit(v, list, rec) == IF v THEN Append(list, rec) ELSE list

\* process_online_blobs: is_blob_online returned; an online blob is appended.
ProcessOnlineBlobsProbed ==
  /\ pc = "probed"
  /\ site = "extract"
  /\ LET response_json == drs_contents_cache[drs_id] IN
       blobs' = Emit(verdict, blobs,
                     IF response_json.has_contents
                     THEN BundleBlobRecord(response_json.contents[k], info.name)
                     ELSE StandaloneBlobRecord(response_json))
  /\ k' = k + 1
  /\ returned' = IF blob_id \in DOMAIN returned THEN returned
                 ELSE Put(returned, blob_id, verdict)
  /\ pc' = "extract"
  /\ LeaveLoop
  /\ blob_id' = ""
  /\ verdict' = FALSE
  /\ IF verdict
     THEN /\ original' = WalkedEntries(drs_contents_cache[drs_id])[k].name
          /\ modified' = determine_modified_name(original')
     ELSE UNCHANGED names
  /\ UNCHANGED <<config, caches, tables, row, online_blobs, caller, site,
                 response, drs_id, drs_uri, info, num_offline, fetches,
                 info_calls>>

\* run: the online row of one record of process_online_blobs.
HotRow(blob, r) ==
  [drs_id |-> blob.drs_id, drs_uri |-> blob.drs_uri, name |-> blob.name,
   Run |-> r.Run]

\* Rows put at the front of the table instead of its end.
ExtendFront(data, rows) == rows \o data

\* run: "for blob in online_blobs: ... hot_data.append(row)" appends the rows,
\* in order, at the end of the table.
Extend(data, rows) == data \o rows

\* process_online_blobs returns to run, which appends one online row a record.
ProcessOnlineBlobsReturn ==
  /\ pc = "extract"
  /\ WalkDone
  /\ online_blobs' = Bound(blobs)
  /\ hot_data' = Extend(hot_data,
                        [i \in 1..Len(blobs) |-> HotRow(blobs[i], df[row])])
  /\ hot_src' = hot_src \o [i \in 1..Len(blobs) |-> row]
  /\ pc' = "check"
  /\ UNCHANGED <<config, names, caches, all_data, row, caller, site, loop,
                 response, drs_id, drs_uri, info, k, num_offline, blobs,
                 blob_id, verdict, fetches, info_calls, returned>>

----------------------------------------------------------------------------
(* run *)

\* run: the audit row of an input row.
AllRow(id, uri, i, r) ==
  [drs_id |-> id, drs_uri |-> uri, name |-> i.name, is_bundle |-> i.is_bundle,
   is_online |-> i.is_online, num_offline |-> i.num_offline,
   total_objects |-> i.num_objects, Run |-> r.Run]

\* run: get_drs_info returned; the audit row is appended, and for an online
\* object process_online_blobs is called.
AuditRow ==
  /\ pc = "info_ret"
  /\ all_data' = Append(all_data, AllRow(drs_id, drs_uri, info, df[row]))
  /\ info_calls' = [info_calls EXCEPT ![drs_id] = @ + 1]
  /\ IF info.is_online
     THEN /\ pc' = "extract"
          /\ k' = 1
          /\ blobs' = <<>>
     ELSE /\ pc' = "check"
          /\ UNCHANGED <<k, blobs>>
  /\ UNCHANGED <<config, names, caches, hot_data, hot_src, row, online_blobs,
                 caller, site, loop, response, drs_id, drs_uri, info,
                 num_offline, blob_id, verdict, fetches, returned>>

\* run: "if not online_blobs" reads the local online_blobs, which is bound only
\* once some row was online; reading it unbound raises UnboundLocalError.
\* Otherwise the loop goes on to the next row.
CheckOnlineBlobs ==
  /\ pc = "check"
  /\ IF online_blobs.bound
     THEN /\ row' = row + 1
          /\ pc' = "row"
          /\ caller' = ""
          /\ site' = ""
          /\ response' = None
          /\ drs_id' = ""
          /\ drs_uri' = ""
          /\ info' = NoInfo
          /\ k' = 0
          /\ num_offline' = 0
          /\ blobs' = <<>>
          /\ blob_id' = ""
          /\ verdict' = FALSE
          /\ original' = <<>>
          /\ modified' = <<>>
     ELSE /\ pc' = "raised"
          /\ UNCHANGED <<row, caller, site, response, drs_id, drs_uri, info, k,
                         num_offline, blobs, blob_id, verdict, names>>
  /\ UNCHANGED <<config, caches, tables, loop, online_blobs, fetches,
                 info_calls, returned>>

\* Sum of f(r) over the rows of a table.
RECURSIVE SumOver(_, _)
SumOver(rows, col) ==
  IF rows = <<>> THEN 0
  ELSE (IF col = "num_offline" THEN rows[1].num_offline
        ELSE rows[1].total_objects) + SumOver(Tail(rows), col)

\* run: the statistics it logs.
offline_blobs == SumOver(all_data, "num_offline")
total_files == SumOver(all_data, "total_objects")
online_files == total_files - offline_blobs

\* run: the loop is over; both tables are returned.
RunReturn ==
  /\ pc = "row"
  /\ row > Len(df)
  /\ pc' = "done"
  /\ UNCHANGED <<config, names, caches, tables, row, online_blobs, caller, site,
                 loop, response, drs_id, drs_uri, info, k, num_offline, blobs,
                 blob_id, verdict, fetches, info_calls, returned>>

----------------------------------------------------------------------------
(* The program *)

Next ==
  \/ RunNextRow
  \/ SendAttempt
  \/ SendFail
  \/ GetDrsIdReturn
  \/ GetDrsInfoEnter
  \/ GetDrsInfoFetched
  \/ GetDrsInfoProbeNext
  \/ IsBlobOnlineEnter
  \/ ProbeAttempt
  \/ ProbeFail
  \/ GetDrsInfoProbed
  \/ GetDrsInfoReturn
  \/ AuditRow
  \/ ProcessOnlineBlobsNext
  \/ ProcessOnlineBlobsProbed
  \/ ProcessOnlineBlobsReturn
  \/ CheckOnlineBlobs
  \/ RunReturn

Spec == Init /\ [][Next]_vars

SpecLong == InitLong /\ [][Next]_vars

----------------------------------------------------------------------------
(* determine_modified_name on its own *)

\* The characters of the names handed to determine_modified_name, and the
\* names: every string of at most MaxNameLen of them.
NameChars == {"a", ".", "l", "i", "t", "e"}
NameInputs == SeqUpTo(NameChars, MaxNameLen)

\* A fresh Processor about to call determine_modified_name(original).
InitNames ==
  /\ df = <<>>
  /\ max_retries = 0
  /\ flatten_structure = FALSE
  /\ blob_status_cache = EmptyDict
  /\ drs_contents_cache = EmptyDict
  /\ all_data = <<>>
  /\ hot_data = <<>>
  /\ row = 1
  /\ online_blobs = UnboundLocal
  /\ pc = "name"
  /\ caller = ""
  /\ site = ""
  /\ url = NoUrl
  /\ attempt = 0
  /\ response = None
  /\ drs_id = ""
  /\ drs_uri = ""
  /\ info = NoInfo
  /\ k = 0
  /\ num_offline = 0
  /\ blobs = <<>>
  /\ blob_id = ""
  /\ verdict = FALSE
  /\ original \in NameInputs
  /\ modified = <<>>
  /\ gets = 0
  /\ ok_at = 0
  /\ term_at = 0
  /\ fetches = [i \in AllIds |-> 0]
  /\ info_calls = [i \in AllIds |-> 0]
  /\ returned = EmptyDict
  /\ hot_src = <<>>
  /\ transport = NoTransport

\* modified_name = self.determine_modified_name(original_name)
DetermineModifiedName ==
  /\ pc = "name"
  /\ modified' = determine_modified_name(original)
  /\ pc' = "named"
  /\ UNCHANGED <<config, original, caches, tables, row, online_blobs, caller,
                 site, loop, response, drs_id, drs_uri, info, k, num_offline,
                 blobs, blob_id, verdict, fetches, info_calls, returned>>

NextNames == DetermineModifiedName

SpecNames == InitNames /\ [][NextNames]_vars

----------------------------------------------------------------------------
(* Properties *)

\* The program is inside send_request_with_retry, or just back from it.
InSend == pc \in {"send", "send_end", "sent"}

\* The input rows whose loop iteration has run to its last statement.
Completed == {i \in 1..Len(all_data) : i < row \/ pc \in {"check", "raised"}}

\* The online rows run emitted for input row i.
EmittedFor(i) == {j \in 1..Len(hot_data) : hot_src[j] = i}

\* C1: for every input table and every behaviour of the service, run finishes
\* by returning both tables without raising, whichever rows fail to resolve or
\* resolve to an object that is not online (stated for every retry budget that
\* lets a request be sent).
RunNeverRaises == max_retries >= 1 => pc # "raised"

\* C2: when the location lookup fails, get_drs_id_from_sra returns ("", "") and
\* get_drs_info("") returns the unresolved sentinel (False, False, 0, "", 0)
\* whatever the service answers, so the audit row holds drs_id "", is_bundle
\* false, is_online false, offline_count 0 and total_objects 0.
UnresolvedIsSentinel ==
  /\ pc = "info" /\ response = None => drs_id = "" /\ drs_uri = ""
  /\ pc = "info_ret" /\ drs_id = "" => info = Sentinel
  /\ \A i \in 1..Len(all_data) :
       all_data[i].drs_id = "" =>
         /\ ~all_data[i].is_bundle
         /\ ~all_data[i].is_online
         /\ all_data[i].num_offline = 0
         /\ all_data[i].total_objects = 0

\* C3: for max_retries >= 1, a send_request_with_retry call whose attempts all
\* end in 502/503/504 or a network exception issues exactly max_retries GETs
\* and returns None; no call issues more than max_retries GETs.
RetryExhaustion ==
  /\ InSend => gets <= max_retries
  /\ pc = "sent" /\ max_retries >= 1 /\ ok_at = 0 /\ term_at = 0 =>
       gets = max_retries /\ response = None

RetryExhaustionWitness ==
  /\ pc = "sent"
  /\ max_retries = 2
  /\ gets = 2
  /\ ok_at = 0
  /\ term_at = 0
  /\ response = None

\* C4: in send_request_with_retry the first attempt answered by a status other
\* than 200, 502, 503 or 504 ends the call: no further GET is issued and the call
\* returns None, whatever retry budget remains.
TerminalStatusEndsCall ==
  InSend /\ term_at # 0 =>
    /\ gets = term_at
    /\ pc # "send"
    /\ pc = "sent" => response = None

TerminalStatusEndsCallWitness ==
  /\ pc = "sent"
  /\ term_at = 1
  /\ max_retries = 2
  /\ response = None

\* C5 as claimed: for every object id and every outcome of the service, two
\* calls of get_drs_info(id) cause exactly one fetch of the expanded metadata.
\* (Checked under SpecLong: the second call after a failed fetch needs a third
\* row, because run only gets past a row that is not online once an earlier row
\* was online.)
TwoCallsOneFetch ==
  \A id \in AllIds : info_calls[id] >= 2 => fetches[id] = 1

\* C5 as amended: once a get_drs_info(id) call has fetched the metadata of id
\* successfully, no later step starts a fetch for id: every later call is served
\* from the Object Cache. (A call whose fetch fails caches nothing, so the next
\* call for that id fetches again.)
CachedObjectNotRefetched ==
  [][\A id \in DOMAIN drs_contents_cache : fetches'[id] = fetches[id]]_vars

CachedObjectNotRefetchedWitness ==
  \E id \in DOMAIN drs_contents_cache :
    /\ info_calls[id] = 2
    /\ fetches[id] = 1

\* C6: once a call of is_blob_online(b) has returned, the Blob Status Cache
\* holds the returned verdict for b, and every later call of is_blob_online(b)
\* returns that verdict without issuing a GET.
BlobVerdictCached ==
  /\ \A b \in DOMAIN returned :
       b \in DOMAIN blob_status_cache /\ blob_status_cache[b] = returned[b]
  /\ pc = "probed" =>
       /\ blob_id \in DOMAIN blob_status_cache
       /\ blob_status_cache[blob_id] = verdict
       /\ blob_id \in DOMAIN returned => verdict = returned[blob_id] /\ gets = 0

BlobVerdictCachedWitness ==
  /\ pc = "probed"
  /\ blob_id \in DOMAIN returned
  /\ ~verdict
  /\ max_retries = 2
  /\ gets = 0

\* The number of entries of contents whose verdict in the Blob Status Cache is
\* offline.
OfflineEntries(contents) ==
  Cardinality({i \in 1..Len(contents) :
                 /\ contents[i].id \in DOMAIN blob_status_cache
                 /\ ~blob_status_cache[contents[i].id]})

\* C7: for an object whose metadata has a contents list of N entries, K of
\* which have an offline verdict, get_drs_info returns is_bundle = true,
\* offline_count = K, total_objects = N and is_online = (K < N).
BundleAggregation ==
  pc = "info_ret" /\ drs_id \in DOMAIN drs_contents_cache
    /\ drs_contents_cache[drs_id].has_contents =>
      LET contents == drs_contents_cache[drs_id].contents
          N == Len(contents)
          K == OfflineEntries(contents)
      IN /\ \A i \in 1..N : contents[i].id \in DOMAIN blob_status_cache
         /\ info.is_bundle
         /\ info.num_offline = K
         /\ info.num_objects = N
         /\ info.is_online = (K < N)

BundleAggregationWitness ==
  /\ pc = "info_ret"
  /\ drs_id \in DOMAIN drs_contents_cache
  /\ drs_contents_cache[drs_id].has_contents
  /\ info.num_objects = 2
  /\ info.num_offline = 1
  /\ info.is_online

\* C8 as claimed: every get_drs_info call that obtained a descriptor returns
\* total_objects >= 1.
DescriptorHasObjects ==
  pc = "info_ret" /\ drs_id \in DOMAIN drs_contents_cache =>
    info.num_objects >= 1

\* C8 as amended: every get_drs_info call that obtained a descriptor returns
\* total_objects >= 1, unless the descriptor is a bundle whose contents list is
\* empty, for which it returns total_objects = 0.
DescriptorObjectCount ==
  pc = "info_ret" /\ drs_id \in DOMAIN drs_contents_cache =>
    LET response_json == drs_contents_cache[drs_id] IN
      IF response_json.has_contents /\ response_json.contents = <<>>
      THEN info.num_objects = 0
      ELSE info.num_objects >= 1

DescriptorObjectCountWitness ==
  /\ pc = "info_ret"
  /\ drs_id \in DOMAIN drs_contents_cache
  /\ ~drs_contents_cache[drs_id].has_contents
  /\ info.num_objects = 1

\* C9: in every audit row produced by run, offline_count <= total_objects, so
\* the logged online count (total minus offline) is never negative.
OfflineAtMostTotal ==
  /\ \A i \in 1..Len(all_data) :
       all_data[i].num_offline <= all_data[i].total_objects
  /\ online_files >= 0

OfflineAtMostTotalWitness ==
  \E i \in 1..Len(all_data) :
    /\ all_data[i].num_offline = 2
    /\ all_data[i].total_objects = 2

\* C10 as claimed: for every input row, is_online is true iff run emits at
\* least one online row for that input row.
OnlineIffEmits ==
  \A i \in Completed : all_data[i].is_online = (EmittedFor(i) # {})

\* The entries process_online_blobs emits a record for: those without nested
\* contents whose verdict in the Blob Status Cache is online.
OnlineLeaves(id) ==
  IF id \notin DOMAIN drs_contents_cache THEN {}
  ELSE LET walked == WalkedEntries(drs_contents_cache[id]) IN
         {n \in 1..Len(walked) :
            /\ ~walked[n].nested
            /\ walked[n].id \in DOMAIN blob_status_cache
            /\ blob_status_cache[walked[n].id]}

\* C10 as amended: for every input row, is_online is true iff offline_count <
\* total_objects, and run emits at least one online row for the input row iff
\* is_online is true and some entry that process_online_blobs walks (a contents
\* entry without nested contents, or the standalone blob under the id its
\* metadata carries) has an online verdict.
OnlineRowsOnlyForOnlineLeaves ==
  \A i \in Completed :
    /\ all_data[i].is_online
         = (all_data[i].num_offline < all_data[i].total_objects)
    /\ (EmittedFor(i) # {})
         = (all_data[i].is_online /\ OnlineLeaves(all_data[i].drs_id) # {})

OnlineRowsOnlyForOnlineLeavesWitness ==
  \E i \in Completed :
    /\ all_data[i].is_bundle
    /\ all_data[i].is_online
    /\ all_data[i].num_offline = 1
    /\ Cardinality(EmittedFor(i)) = 1

\* C11: process_online_blobs issues no HTTP request: when run calls it after
\* get_drs_info(drs_id), every verdict it asks is_blob_online for is already in
\* the Blob Status Cache, for a bundle as for a standalone blob.
ExtractorIssuesNoGet ==
  site = "extract" =>
    /\ pc = "blob" => blob_id \in DOMAIN blob_status_cache
    /\ pc \notin {"probe", "probe_end"}

\* C12: at every moment each online row belongs to an input row whose audit
\* row is already in the audit table, and the online rows are grouped in
\* input-row order; when run completes the audit table has exactly one row per
\* input row, in input order.
TablesFollowInput ==
  /\ \A j \in 1..Len(hot_data) :
       /\ hot_src[j] \in 1..Len(all_data)
       /\ hot_data[j].Run = df[hot_src[j]].Run
       /\ j > 1 => hot_src[j - 1] <= hot_src[j]
  /\ Len(all_data) <= Len(df)
  /\ \A i \in 1..Len(all_data) : all_data[i].Run = df[i].Run
  /\ pc = "done" => Len(all_data) = Len(df)

\* run completed on two input rows that both emitted online rows.
TablesFollowInputWitness ==
  /\ pc = "done"
  /\ Len(df) = 2
  /\ Len(all_data) = 2
  /\ \E j \in 1..Len(hot_data) : hot_data[j].Run = df[1].Run
  /\ \E j \in 1..Len(hot_data) : hot_data[j].Run = df[2].Run

\* The completed input rows that resolved to an object whose metadata was
\* fetched and has no contents: standalone blobs.
StandaloneRows ==
  {i \in Completed : /\ all_data[i].drs_id # ""
                     /\ ~all_data[i].is_bundle
                     /\ all_data[i].total_objects = 1}

\* C13: for an input row that resolves to object id D whose metadata has no
\* contents, run emits exactly one online row, with blob id D, when the probe
\* of D is online, and none when it is offline.
StandaloneEmitsItself ==
  \A i \in StandaloneRows :
    IF all_data[i].is_online
    THEN /\ Cardinality(EmittedFor(i)) = 1
         /\ \A j \in EmittedFor(i) : hot_data[j].drs_id = all_data[i].drs_id
    ELSE EmittedFor(i) = {}

\* The blob ids of the online rows run emitted for input row i, in table order.
EmittedIds(i) ==
  LET idx == SelectSeq([j \in 1..Len(hot_data) |-> j],
                       LAMBDA j : hot_src[j] = i)
  IN  [n \in 1..Len(idx) |-> hot_data[idx[n]].drs_id]

\* The direct children of a contents list that have no nested contents and a
\* cached online verdict, in child order.
OnlineChildren(contents) ==
  SelectSeq(contents,
            LAMBDA c : /\ ~c.nested
                       /\ c.id \in DOMAIN blob_status_cache
                       /\ blob_status_cache[c.id])

\* The loop body of run has reached its last statement for a row whose object
\* is a bundle / an online object.
BundleRowDone == pc = "check" /\ all_data[row].is_bundle
OnlineRowDone == pc = "check" /\ all_data[row].is_online

\* C14: when run is through with an input row whose object is a bundle, the
\* online rows of that row are, in child order, exactly the direct children
\* without nested contents whose cached verdict is online; a bundle of N blob
\* children of which K < N are offline yields N - K online rows and one audit
\* row.
BundleEmitsOnlineChildren ==
  BundleRowDone =>
    LET contents == drs_contents_cache[all_data[row].drs_id].contents
        online == OnlineChildren(contents)
        emitted == EmittedIds(row)
    IN  /\ emitted = [n \in 1..Len(online) |-> online[n].id]
        /\ Cardinality({a \in 1..Len(all_data) :
                          all_data[a].Run = df[row].Run}) = 1
        /\ (/\ \A n \in 1..Len(contents) : ~contents[n].nested
            /\ all_data[row].num_offline < all_data[row].total_objects)
           => Len(emitted) =
                all_data[row].total_objects - all_data[row].num_offline

\* A bundle of two blob children, the first offline and the second online,
\* has been extracted: one online row, for the second child.
BundleEmitsOnlineChildrenWitness ==
  /\ BundleRowDone
  /\ LET contents == drs_contents_cache[all_data[row].drs_id].contents IN
       /\ Len(contents) = 2
       /\ \A n \in 1..2 : ~contents[n].nested
       /\ all_data[row].num_offline = 1
       /\ ~blob_status_cache[contents[1].id]
       /\ EmittedIds(row) = <<contents[2].id>>

\* C15: every row of the online table names a blob whose verdict in the Blob
\* Status Cache is online, and belongs to an input row whose audit row says
\* is_online.
OnlineRowsAreOnline ==
  \A j \in 1..Len(hot_data) :
    /\ hot_data[j].drs_id \in DOMAIN blob_status_cache
    /\ blob_status_cache[hot_data[j].drs_id]
    /\ all_data[hot_src[j]].Run = hot_data[j].Run
    /\ all_data[hot_src[j]].is_online

\* The online table has a row while some blob of the run has an offline
\* verdict.
OnlineRowsAreOnlineWitness ==
  /\ Len(hot_data) >= 1
  /\ \E b \in DOMAIN blob_status_cache : ~blob_status_cache[b]
  /\ pc = "done"

\* The output paths of the online rows run emitted for input row i, in table
\* order.
EmittedNames(i) ==
  LET idx == SelectSeq([j \in 1..Len(hot_data) |-> j],
                       LAMBDA j : hot_src[j] = i)
  IN  [n \in 1..Len(idx) |-> hot_data[idx[n]].name]

\* C16: the output path of every online record is DRS_Import/<derived_name>
\* when flatten_structure is true, for a bundle member as for a standalone
\* blob; when it is false the path is <bundle_name>/<derived_name> for a bundle
\* member and the bare <derived_name> for a standalone blob.
OutputPaths ==
  OnlineRowDone =>
    LET online ==
          OnlineChildren(
            WalkedEntries(drs_contents_cache[all_data[row].drs_id]))
        paths == EmittedNames(row)
    IN  /\ Len(paths) = Len(online)
        /\ \A n \in 1..Len(paths) :
             LET derived_name == determine_modified_name(online[n].name) IN
               paths[n] =
                 IF flatten_structure
                 THEN Chars_DRS_Import \o <<"/">> \o derived_name
                 ELSE IF all_data[row].is_bundle
                 THEN all_data[row].name \o <<"/">> \o derived_name
                 ELSE derived_name

\* Without flattening, the member b.lite of the bundle a was emitted under the
\* path a/b.sralite.
OutputPathsWitness ==
  /\ ~flatten_structure
  /\ OnlineRowDone
  /\ all_data[row].is_bundle
  /\ \E n \in 1..Len(EmittedNames(row)) :
       EmittedNames(row)[n] =
         <<"a", "/", "b", ".", "s", "r", "a", "l", "i", "t", "e">>

\* name ends in ".lite".
IsLite(name) ==
  /\ Len(name) >= 5
  /\ name[Len(name) - 4] = "."
  /\ name[Len(name) - 3] = "l"
  /\ name[Len(name) - 2] = "i"
  /\ name[Len(name) - 1] = "t"
  /\ name[Len(name)] = "e"

\* C17: determine_modified_name maps a name ending in ".lite" to the name with
\* that suffix replaced by ".sralite", a name without "." to the name with
\* ".sra" appended, and any other name to itself.
NameMapping ==
  pc = "named" =>
    LET n == Len(original) IN
      IF IsLite(original)
      THEN /\ Len(modified) = n + 3
           /\ \A i \in 1..(n - 5) : modified[i] = original[i]
           /\ \A i \in 1..8 : modified[n - 5 + i] = Chars_sralite[i]
      ELSE IF \A i \in 1..n : original[i] # "."
      THEN /\ Len(modified) = n + 4
           /\ \A i \in 1..n : modified[i] = original[i]
           /\ \A i \in 1..4 : modified[n + i] = Chars_sra[i]
      ELSE modified = original

\* determine_modified_name was applied to "a.lite".
NameMappingWitness ==
  /\ pc = "named"
  /\ original = <<"a", ".", "l", "i", "t", "e">>
  /\ modified = <<"a", ".", "s", "r", "a", "l", "i", "t", "e">>

\* C18: the probe loop of is_blob_online is equivalent to
\* send_request_with_retry: on a cache miss, whatever the remote answers,
\* is_blob_online returns true exactly when send_request_with_retry on the same
\* answers returns a response, and both issue the same number of GETs.
ProbeLoopIsTransport ==
  /\ pc \in {"probe", "probe_end"} => gets = transport.gets
  /\ pc = "probe" => transport.state = "loop"
  /\ (pc = "probed" /\ url # NoUrl) =>
       /\ transport.state \in {"response", "none"}
       /\ verdict = (transport.state = "response")
       /\ gets = transport.gets

\* A probe was answered 503 and then 200 on a cache miss: both loops issued two
\* GETs and both succeeded.
ProbeLoopIsTransportWitness ==
  /\ pc = "probed"
  /\ url # NoUrl
  /\ gets = 2
  /\ verdict
  /\ transport = [state |-> "response", gets |-> 2]

\* C19: send_request_with_retry returns a response iff one of the GETs it
\* issued, at most max_retries of them, was answered 200 and every earlier one
\* ended in 502, 503, 504 or a network exception; the 200 is the last GET it
\* issues.
ResponseIffFirst200 ==
  pc = "sent" =>
    /\ (response # None) <=>
         /\ ok_at \in 1..max_retries
         /\ term_at = 0 \/ term_at > ok_at
    /\ response # None => gets = ok_at

\* send_request_with_retry returned the response of its second GET, the first
\* one having failed with a retryable outcome.
ResponseIffFirst200Witness ==
  /\ pc = "sent"
  /\ response # None
  /\ ok_at = 2
  /\ gets = 2
  /\ term_at = 0

\* C20: both caches are write-once over a run: no step changes or removes the
\* descriptor the Object Cache holds for an id, or the verdict the Blob Status
\* Cache holds for a blob id.
CachesWriteOnce ==
  [][/\ \A id \in DOMAIN drs_contents_cache :
          /\ id \in DOMAIN drs_contents_cache'
          /\ drs_contents_cache'[id] = drs_contents_cache[id]
     /\ \A id \in DOMAIN blob_status_cache :
          /\ id \in DOMAIN blob_status_cache'
          /\ blob_status_cache'[id] = blob_status_cache[id]]_vars

\* In the second input row is_blob_online has just answered from the Blob
\* Status Cache, for an object whose descriptor is in the Object Cache, while
\* the cache also holds an offline verdict.
CachesWriteOnceWitness ==
  /\ row = 2
  /\ pc = "probed"
  /\ url = NoUrl
  /\ blob_id \in DOMAIN blob_status_cache
  /\ drs_id \in DOMAIN drs_contents_cache
  /\ \E b \in DOMAIN blob_status_cache : ~blob_status_cache[b]

====
